---- MODULE Spec2Model ----
(***************************************************************************)
(* Model of the ESLint rule prefer-t-regex (src/rules/prefer-t-regex.js).  *)
(*                                                                         *)
(* The rule is a visitor over CallExpression nodes.  For one visited call  *)
(* it consults the scope analysis of the host (findReference), traces the  *)
(* origin of an expression (findRootReference), classifies it (isRegExp)   *)
(* and, in booleanHandler or equalityHandler, reports a finding that       *)
(* carries a fix closure.  The host later invokes the closure, which       *)
(* yields text edits addressed by node ranges.                             *)
(*                                                                         *)
(* AST nodes are records shaped like ESTree nodes.  The source text of a   *)
(* node is its canonical rendering (textOf); node ranges are the offsets   *)
(* of that rendering inside the rendering of the visited call.             *)
(***************************************************************************)
EXTENDS Integers, Sequences, FiniteSets, TLC

VARIABLES
    scope,      \* what sourceCode.getScope(...) returns: [references |-> <<...>>]
    node,       \* the CallExpression node handed to the visitor
    pc,         \* "visit" before the visitor ran, then "returned" or "RangeError"
    reports,    \* the findings passed to context.report, in order
    fixes       \* the results of the fix closures the host has invoked so far

vars == <<scope, node, pc, reports, fixes>>

\* Number of alias variables p1 .. pMaxAlias the scope declares.
MaxAlias == 2

\* Depth of the call stack available to findRootReference's recursion.
MaxStack == 12

(***************************************************************************)
(* JavaScript values.                                                      *)
(***************************************************************************)
undefined == [undefined |-> TRUE]
null == [null |-> TRUE]
emptyObject == [object |-> TRUE]
RangeError == [error |-> "RangeError"]
TypeError == [error |-> "TypeError"]
JSBool(b) == [boolean |-> b]

Has(o, f) == f \in DOMAIN o
typeOf(o) == IF Has(o, "type") THEN o.type ELSE ""
nameOf(o) == IF Has(o, "name") THEN o.name ELSE ""
truthy(v) == v # JSBool(FALSE) /\ v # undefined /\ v # null

(***************************************************************************)
(* ESTree nodes.                                                           *)
(***************************************************************************)
Identifier(nm) == [type |-> "Identifier", name |-> nm]
Literal(raw) == [type |-> "Literal", raw |-> raw]
\* A regex literal /ab/; the field at tells apart the occurrences of the literal in
\* the file, so that the regex objects of two nodes are two objects.
RegexLiteral(at) ==
    [type |-> "Literal", raw |-> "/ab/",
     regex |-> [pattern |-> "ab", flags |-> "", at |-> at]]
MemberExpression(obj, prop) ==
    [type |-> "MemberExpression", object |-> obj, property |-> Identifier(prop)]
CallExpression(callee, args) ==
    [type |-> "CallExpression", callee |-> callee, arguments |-> args]
NewExpression(callee, args) ==
    [type |-> "NewExpression", callee |-> callee, arguments |-> args]
VariableDeclarator(init) == [type |-> "VariableDeclarator", init |-> init]
ArrowFunctionExpression == [type |-> "ArrowFunctionExpression"]

\* node.arguments[i - 1] of JavaScript: undefined past the end.
Arg(n, i) ==
    IF Has(n, "arguments") /\ Len(n.arguments) >= i THEN n.arguments[i] ELSE undefined

booleanTests == {"true", "false", "truthy", "falsy"}
equalityTests == {"is", "deepEqual"}

(***************************************************************************)
(* Source text and ranges.                                                 *)
(***************************************************************************)
RECURSIVE textOf(_)
RECURSIVE textOfList(_)
textOfList(args) ==
    IF Len(args) = 0 THEN ""
    ELSE IF Len(args) = 1 THEN textOf(args[1])
    ELSE textOf(args[1]) \o ", " \o textOfList(Tail(args))

textOf(n) ==
    CASE typeOf(n) = "Literal" -> n.raw
      [] typeOf(n) = "Identifier" -> n.name
      [] typeOf(n) = "MemberExpression" -> textOf(n.object) \o "." \o n.property.name
      [] typeOf(n) = "CallExpression" ->
            textOf(n.callee) \o "(" \o textOfList(n.arguments) \o ")"
      [] typeOf(n) = "NewExpression" ->
            "new " \o textOf(n.callee) \o "(" \o textOfList(n.arguments) \o ")"
      [] OTHER -> ""

\* The text of the file: the visited call as an expression statement.
sourceText == textOf(node) \o ";"

\* sourceCode.getText(n): the text of n, and the whole text when n is absent.
getText(n) == IF n = undefined \/ n = null THEN sourceText ELSE textOf(n)

\* The range of call.callee.property, as offsets into the text of call.
propertyRange(call) ==
    LET start == Len(textOf(call.callee.object)) + 1
    IN  <<start, start + Len(call.callee.property.name)>>

\* The range of call.arguments[i - 1], as offsets into the text of call.
RECURSIVE argumentStart(_, _)
argumentStart(call, i) ==
    IF i = 1 THEN Len(textOf(call.callee)) + 1
    ELSE argumentStart(call, i - 1) + Len(textOf(call.arguments[i - 1])) + 2

argumentRange(call, i) ==
    LET start == argumentStart(call, i)
    IN  <<start, start + Len(textOf(call.arguments[i]))>>

\* fixer.replaceText(target, text): target is the range of an existing node.
replaceText(range, text) == [range |-> range, text |-> text]

(***************************************************************************)
(* Scope resolution and origin tracing.                                    *)
(***************************************************************************)
Min(S) == CHOOSE x \in S : \A y \in S : x <= y

findReference(n) ==
    LET refs == scope.references
        hits == {i \in 1..Len(refs) : refs[i].identifier.name = n.name}
    IN  IF hits = {} THEN undefined
        ELSE LET reference == refs[Min(hits)]
             IN  IF reference.resolved # null
                 THEN LET definitions == reference.resolved.defs
                      IN  IF Len(definitions) = 0 THEN undefined
                          ELSE definitions[Len(definitions)].node
                 ELSE undefined

\* findRootReference following one identifier hop only: an initializer that
\* is itself an identifier is returned as the origin.
RECURSIVE findRootReference_SingleHop(_, _)
findRootReference_SingleHop(n, depth) ==
    IF depth > MaxStack THEN RangeError
    ELSE IF n = undefined \/ n = null THEN undefined
    ELSE IF typeOf(n) = "Identifier"
    THEN LET reference == findReference(n)
         IN  IF reference # undefined /\ Has(reference, "init") /\ truthy(reference.init)
             THEN IF typeOf(reference.init) = "Identifier" THEN reference.init
                  ELSE findRootReference_SingleHop(reference.init, depth + 1)
             ELSE n
    ELSE IF typeOf(n) \in {"CallExpression", "NewExpression"}
    THEN findRootReference_SingleHop(n.callee, depth + 1)
    ELSE IF typeOf(n) = "MemberExpression"
    THEN findRootReference_SingleHop(n.object, depth + 1)
    ELSE n

RECURSIVE findRootReference(_, _)
findRootReference(n, depth) ==
    IF depth > MaxStack THEN RangeError
    ELSE IF n = undefined \/ n = null THEN undefined
    ELSE IF typeOf(n) = "Identifier"
    THEN LET reference == findReference(n)
         IN  IF reference # undefined /\ Has(reference, "init") /\ truthy(reference.init)
             THEN findRootReference(reference.init, depth + 1)
             ELSE n
    ELSE IF typeOf(n) \in {"CallExpression", "NewExpression"}
    THEN findRootReference(n.callee, depth + 1)
    ELSE IF typeOf(n) = "MemberExpression"
    THEN findRootReference(n.object, depth + 1)
    ELSE n

\* isRegExp without the rule for the name RegExp.
isRegExp_NoNameRule(lookup) ==
    IF lookup = undefined \/ lookup = null THEN JSBool(FALSE)
    ELSE IF Has(lookup, "regex") THEN JSBool(TRUE)
    ELSE LET reference == findRootReference(lookup, 1)
         IN  IF reference = RangeError THEN RangeError
             ELSE IF reference = undefined THEN JSBool(FALSE)
             ELSE IF Has(reference, "regex") THEN reference.regex
             ELSE JSBool(FALSE)

isRegExp(lookup) ==
    IF lookup = undefined \/ lookup = null THEN JSBool(FALSE)
    ELSE IF Has(lookup, "regex") THEN JSBool(TRUE)
    ELSE LET reference == findRootReference(lookup, 1)
         IN  IF reference = RangeError THEN RangeError
             ELSE IF reference = undefined THEN JSBool(FALSE)
             ELSE IF Has(reference, "regex") THEN reference.regex
             ELSE JSBool(nameOf(reference) = "RegExp")

(***************************************************************************)
(* The two handlers.  Each yields how it ended and what it reported.       *)
(***************************************************************************)
Return(rs) == [pc |-> "returned", reports |-> rs]
Throw(e) == [pc |-> e.error, reports |-> <<>>]

\* The message of a finding (the code quotes t.<assertion>() in backticks).
message(assertion) == "Prefer using the t." \o assertion \o "() assertion."

\* lookup and variable of booleanHandler for its first argument.
booleanLookup(firstArgument) ==
    LET name == firstArgument.callee.property.name
    IN  IF name = "test" THEN firstArgument.callee.object
        ELSE IF name \in {"search", "match"} THEN Arg(firstArgument, 1)
        ELSE emptyObject

\* booleanVariable taking the call argument as the subject for every method.
booleanVariable_NoSwap(firstArgument) ==
    LET name == firstArgument.callee.property.name
    IN  IF name \in {"test", "search", "match"} THEN Arg(firstArgument, 1)
        ELSE emptyObject

booleanVariable(firstArgument) ==
    LET name == firstArgument.callee.property.name
    IN  IF name = "test" THEN Arg(firstArgument, 1)
        ELSE IF name \in {"search", "match"} THEN firstArgument.callee.object
        ELSE emptyObject

booleanAssertion(call) ==
    IF call.callee.property.name \in {"true", "truthy"} THEN "regex" ELSE "notRegex"

booleanHandler(call) ==
    LET firstArgument == Arg(call, 1)
    IN  IF firstArgument = undefined THEN Return(<<>>)
        ELSE IF typeOf(firstArgument) # "CallExpression"
                \/ ~Has(firstArgument.callee, "property")
        THEN Return(<<>>)
        ELSE LET classified == isRegExp(booleanLookup(firstArgument))
             IN  IF classified = RangeError THEN Throw(RangeError)
                 ELSE IF ~truthy(classified) THEN Return(<<>>)
                 ELSE Return(<<[node |-> call,
                                message |-> message(booleanAssertion(call)),
                                fix |-> [handler |-> "booleanHandler",
                                         assertion |-> booleanAssertion(call)]]>>)

\* The closure fix of booleanHandler, invoked with a fixer.
fix(call, assertion) ==
    LET firstArgument == Arg(call, 1)
    IN  <<replaceText(propertyRange(call), assertion),
          replaceText(argumentRange(call, 1),
                      getText(booleanVariable(firstArgument)) \o ", "
                          \o getText(booleanLookup(firstArgument)))>>

\* matchee and regex of equalityHandler.
equalityMatchee(call) ==
    IF truthy(isRegExp(Arg(call, 2))) THEN Arg(call, 1) ELSE Arg(call, 2)

equalityRegex(call) ==
    IF truthy(isRegExp(Arg(call, 2))) THEN Arg(call, 2) ELSE Arg(call, 1)

\* equalityAssertion taking every raw text other than true for false.
equalityAssertion_ElseNotRegex(matchee) ==
    IF matchee.raw = "true" THEN "regex" ELSE "notRegex"

\* equalityAssertion taking every raw text other than false for true.
equalityAssertion_ElseRegex(matchee) ==
    IF matchee.raw = "false" THEN "notRegex" ELSE "regex"

equalityAssertion(matchee) ==
    IF matchee.raw = "true" THEN "regex"
    ELSE IF matchee.raw = "false" THEN "notRegex"
    ELSE ""

equalityHandler(call) ==
    LET firstArgumentIsRegex == isRegExp(Arg(call, 1))
        secondArgumentIsRegex == isRegExp(Arg(call, 2))
        matchee == equalityMatchee(call)
        regex == equalityRegex(call)
    IN  IF firstArgumentIsRegex = RangeError \/ secondArgumentIsRegex = RangeError
        THEN Throw(RangeError)
        ELSE IF firstArgumentIsRegex = secondArgumentIsRegex THEN Return(<<>>)
        ELSE IF matchee = undefined THEN Return(<<>>)
        ELSE IF regex # undefined /\ typeOf(matchee) = "Literal"
        THEN IF equalityAssertion(matchee) = "" THEN Return(<<>>)
             ELSE Return(<<[node |-> call,
                            message |-> message(equalityAssertion(matchee)),
                            fix |-> [handler |-> "equalityHandler",
                                     assertion |-> equalityAssertion(matchee)]]>>)
        ELSE Return(<<>>)

\* booleanFixer writing the pattern first and the subject second.
booleanFixer_Swapped(call, assertion) ==
    LET regex == equalityRegex(call)
    IN  IF ~Has(regex, "arguments") \/ ~Has(regex, "callee") THEN TypeError
        ELSE <<replaceText(propertyRange(call), assertion),
               replaceText(argumentRange(call, 1),
                           getText(IF Has(regex.callee, "object")
                                   THEN regex.callee.object ELSE undefined)),
               replaceText(argumentRange(call, 2), getText(Arg(regex, 1)))>>

\* booleanFixer addressing the first argument with both of its last edits.
booleanFixer_SameTarget(call, assertion) ==
    LET regex == equalityRegex(call)
    IN  IF ~Has(regex, "arguments") \/ ~Has(regex, "callee") THEN TypeError
        ELSE <<replaceText(propertyRange(call), assertion),
               replaceText(argumentRange(call, 1), getText(Arg(regex, 1))),
               replaceText(argumentRange(call, 1),
                           getText(IF Has(regex.callee, "object")
                                   THEN regex.callee.object ELSE undefined))>>

\* The closure booleanFixer(assertion) of equalityHandler, invoked with a fixer.
booleanFixer(call, assertion) ==
    LET regex == equalityRegex(call)
    IN  IF ~Has(regex, "arguments") \/ ~Has(regex, "callee") THEN TypeError
        ELSE <<replaceText(propertyRange(call), assertion),
               replaceText(argumentRange(call, 1), getText(Arg(regex, 1))),
               replaceText(argumentRange(call, 2),
                           getText(IF Has(regex.callee, "object")
                                   THEN regex.callee.object ELSE undefined))>>

(***************************************************************************)
(* The visitor registered for CallExpression.                              *)
(***************************************************************************)
RECURSIVE getRootNode(_)
getRootNode(n) ==
    IF typeOf(n.object) = "MemberExpression" THEN getRootNode(n.object) ELSE n

getNameOfRootNodeObject(n) == nameOf(getRootNode(n).object)

visitor(call) ==
    IF ~Has(call.callee, "property") THEN Return(<<>>)
    ELSE LET isAssertion == /\ call.callee.type = "MemberExpression"
                            /\ getNameOfRootNodeObject(call.callee) = "t"
             isBooleanAssertion ==
                 isAssertion /\ call.callee.property.name \in booleanTests
             isEqualityAssertion ==
                 isAssertion /\ call.callee.property.name \in equalityTests
         IN  IF isBooleanAssertion THEN booleanHandler(call)
             ELSE IF isEqualityAssertion THEN equalityHandler(call)
             ELSE Return(<<>>)

(***************************************************************************)
(* The inputs: scopes the host's analysis yields, and visited calls.       *)
(***************************************************************************)
AliasName(i) == "p" \o ToString(i)
Alias(i) == Identifier(AliasName(i))
\* The variable the visited calls use as their pattern.
re == Alias(MaxAlias)

Resolved(nm, defs) ==
    [identifier |-> Identifier(nm), resolved |-> [defs |-> defs]]
Unresolved(nm) == [identifier |-> Identifier(nm), resolved |-> null]
Def(n) == [node |-> n]

AliasKinds ==
    {"global", "let", "regex", "number", "new", "alias", "self", "redeclared"}

\* The reference the scope lists for alias i, by the way the file declares it.
AliasReference(i, kind) ==
    LET nm == AliasName(i)
        prev == IF i = 1 THEN MaxAlias ELSE i - 1
    IN  CASE kind = "global" -> Unresolved(nm)
          [] kind = "let" -> Resolved(nm, <<Def(VariableDeclarator(null))>>)
          [] kind = "regex" ->
                Resolved(nm, <<Def(VariableDeclarator(RegexLiteral(nm)))>>)
          [] kind = "number" ->
                Resolved(nm, <<Def(VariableDeclarator(Literal("5")))>>)
          [] kind = "new" ->
                Resolved(nm, <<Def(VariableDeclarator(
                    NewExpression(Identifier("RegExp"), <<Literal("'a'")>>)))>>)
          [] kind = "alias" ->
                Resolved(nm, <<Def(VariableDeclarator(Alias(prev)))>>)
          [] kind = "self" ->
                Resolved(nm, <<Def(VariableDeclarator(Alias(i)))>>)
          [] kind = "redeclared" ->
                Resolved(nm, <<Def(VariableDeclarator(RegexLiteral(nm))),
                               Def(VariableDeclarator(Literal("5")))>>)

RegExpKinds == {"global", "configured", "param", "number"}

\* The reference the scope lists for the name RegExp.
RegExpReference(kind) ==
    CASE kind = "global" -> Unresolved("RegExp")
      [] kind = "configured" -> Resolved("RegExp", <<>>)
      [] kind = "param" -> Resolved("RegExp", <<Def(ArrowFunctionExpression)>>)
      [] kind = "number" ->
            Resolved("RegExp", <<Def(VariableDeclarator(Literal("5")))>>)

MkScope(kinds, regexpKind) ==
    [references |->
        <<Resolved("t", <<Def(ArrowFunctionExpression)>>),
          Resolved("s", <<Def(ArrowFunctionExpression)>>)>>
        \o [i \in 1..MaxAlias |-> AliasReference(i, kinds[i])]
        \o <<RegExpReference(regexpKind)>>]

Scopes == {MkScope(k, g) : k \in [1..MaxAlias -> AliasKinds], g \in RegExpKinds}

\* const p1 = /ab/, ..., const pN = /ab/; RegExp is the global.
BaseScope == MkScope([i \in 1..MaxAlias |-> "regex"], "global")

NewRegExp == NewExpression(Identifier("RegExp"), <<Literal("'a'")>>)
CallRegExp == CallExpression(Identifier("RegExp"), <<Literal("'a'")>>)
subject == Identifier("s")

\* Where the regex literal written inside argument i of the visited call is.
InArgument(i) == "arguments[" \o ToString(i - 1) \o "]"

\* Expressions in the roles of pattern and subject, inside argument i.
Patterns(i) == {RegexLiteral(InArgument(i)), re, NewRegExp}
Operands(i) == Patterns(i) \cup {subject, Literal("'x'")}

Methods == {"test", "match", "search", "exec"}

MethodCalls(methods, objects, arguments) ==
    {CallExpression(MemberExpression(o, m), a) :
        o \in objects, m \in methods,
        a \in {<<>>} \cup {<<x>> : x \in arguments}}

Atoms(i) ==
    {Literal("true"), Literal("false"), Literal("1"), Literal("null"),
     subject, CallExpression(Identifier("foo"), <<subject>>), CallRegExp}
        \cup Patterns(i)

BooleanArguments ==
    Atoms(1) \cup MethodCalls(Methods, Operands(1), Operands(1))

EqualityArguments(i) ==
    Atoms(i) \cup MethodCalls({"test", "match"}, Patterns(i) \cup {subject},
                              {subject, re})

ArgumentLists(first, second) ==
    {<<>>} \cup {<<a>> : a \in first} \cup {<<a, b>> : a \in first, b \in second}

Assertion(object, name, args) ==
    CallExpression(MemberExpression(object, name), args)

BooleanCalls ==
    {Assertion(Identifier("t"), name, args) :
        name \in booleanTests, args \in ArgumentLists(BooleanArguments, {subject})}

EqualityCalls ==
    {Assertion(Identifier("t"), name, args) :
        name \in equalityTests,
        args \in ArgumentLists(EqualityArguments(1), EqualityArguments(2))}

\* Calls the visitor sees and leaves alone.
OtherCalls ==
    {Assertion(Identifier("t"), "pass", <<>>),
     Assertion(Identifier("t"), "regex", <<subject, RegexLiteral(InArgument(2))>>),
     Assertion(Identifier("foo"), "true",
               <<CallExpression(MemberExpression(RegexLiteral(InArgument(1)), "test"), <<subject>>)>>),
     Assertion(Identifier("foo"), "is",
               <<CallExpression(MemberExpression(RegexLiteral(InArgument(1)), "test"), <<subject>>),
                 Literal("true")>>),
     Assertion(MemberExpression(Identifier("t"), "skip"), "true",
               <<CallExpression(MemberExpression(RegexLiteral(InArgument(1)), "test"), <<subject>>)>>),
     CallExpression(Identifier("foo"), <<subject>>),
     CallExpression(MemberExpression(RegexLiteral("callee"), "test"), <<subject>>)}

Calls == BooleanCalls \cup EqualityCalls \cup OtherCalls

\* The calls visited under every scope: those whose outcome the scope decides.
AliasCalls ==
    LET reTest == CallExpression(MemberExpression(re, "test"), <<subject>>)
        newTest == CallExpression(MemberExpression(NewRegExp, "test"), <<subject>>)
        callTest == CallExpression(MemberExpression(CallRegExp, "test"), <<subject>>)
        t == Identifier("t")
    IN  {Assertion(t, "true", <<reTest>>),
         Assertion(t, "falsy", <<CallExpression(MemberExpression(subject, "match"), <<re>>)>>),
         Assertion(t, "true", <<newTest>>),
         Assertion(t, "false", <<callTest>>),
         Assertion(t, "truthy",
                   <<CallExpression(MemberExpression(subject, "search"), <<NewRegExp>>)>>),
         Assertion(t, "is", <<reTest, Literal("true")>>),
         Assertion(t, "deepEqual", <<Literal("false"), newTest>>),
         Assertion(t, "is", <<re, Literal("true")>>),
         Assertion(t, "is", <<re, re>>),
         Assertion(t, "is", <<re, RegexLiteral(InArgument(2))>>),
         Assertion(t, "is", <<RegexLiteral(InArgument(1)), re>>),
         Assertion(t, "is", <<NewRegExp, re>>),
         Assertion(t, "is", <<re, Alias(1)>>),
         Assertion(t, "is", <<NewRegExp, Literal("true")>>)}

(***************************************************************************)
(* The state machine.                                                      *)
(***************************************************************************)
Init ==
    /\ \/ scope = BaseScope /\ node \in Calls
       \/ scope \in Scopes /\ node \in AliasCalls
    /\ pc = "visit"
    /\ reports = <<>>
    /\ fixes = <<>>

\* The host visits the call, which passed the gates of visitIf (a test file,
\* inside a test): the visitor runs to its end, or throws.
VisitCallExpression ==
    /\ pc = "visit"
    /\ LET result == visitor(node)
       IN  /\ pc' = result.pc
           /\ reports' = reports \o result.reports
    /\ UNCHANGED <<scope, node, fixes>>

\* The closure a finding carries, applied to a fixer.
RunFix(finding) ==
    IF finding.fix.handler = "booleanHandler"
    THEN fix(finding.node, finding.fix.assertion)
    ELSE booleanFixer(finding.node, finding.fix.assertion)

\* The host invokes the fix of the next finding it was handed.
InvokeFix ==
    /\ pc = "returned"
    /\ Len(fixes) < Len(reports)
    /\ fixes' = Append(fixes, RunFix(reports[Len(fixes) + 1]))
    /\ UNCHANGED <<scope, node, pc, reports>>

Next == VisitCallExpression \/ InvokeFix

Spec == Init /\ [][Next]_vars

(***************************************************************************)
(* Vocabulary of the properties.                                           *)
(***************************************************************************)
visited == pc # "visit"

\* The visited call is t.<name>(...) with name among names.
IsAssertionOnT(names) ==
    /\ typeOf(node.callee) = "MemberExpression"
    /\ node.callee.object = Identifier("t")
    /\ node.callee.property.name \in names

\* isRegExp returns, and returns a truthy value.
classifies(e) == isRegExp(e) # RangeError /\ truthy(isRegExp(e))
\* isRegExp returns, and returns false.
declines(e) == isRegExp(e) = JSBool(FALSE)

IsMethodCall(e, methods) ==
    /\ typeOf(e) = "CallExpression"
    /\ typeOf(e.callee) = "MemberExpression"
    /\ e.callee.property.name \in methods

Disjoint(r1, r2) == r1[2] <= r2[1] \/ r2[2] <= r1[1]

\* The initializer of the latest definition the scope lists for nm, or null.
InitOf(nm) ==
    LET hits == {i \in 1..Len(scope.references) :
                    scope.references[i].identifier.name = nm}
    IN  IF hits = {} THEN null
        ELSE LET r == scope.references[Min(hits)]
             IN  IF r.resolved = null \/ Len(r.resolved.defs) = 0 THEN null
                 ELSE LET d == r.resolved.defs[Len(r.resolved.defs)].node
                      IN  IF Has(d, "init") THEN d.init ELSE null

(***************************************************************************)
(* C1.  A boolean assertion t.<A>(inner), inner a call of test, match or   *)
(* search whose pattern operand classifies as regex, is reported exactly   *)
(* once; the fix renames the assertion to regex (true, truthy) or notRegex *)
(* (false, falsy) and replaces the inner call by "<subject>, <pattern>",   *)
(* the subject being the argument of test and the object of match/search.  *)
(***************************************************************************)
C1_Inner == Arg(node, 1)
C1_Shape ==
    /\ IsAssertionOnT(booleanTests)
    /\ IsMethodCall(C1_Inner, {"test", "match", "search"})
C1_Pattern ==
    IF C1_Inner.callee.property.name = "test"
    THEN C1_Inner.callee.object ELSE Arg(C1_Inner, 1)
C1_Subject ==
    IF C1_Inner.callee.property.name = "test"
    THEN Arg(C1_Inner, 1) ELSE C1_Inner.callee.object
C1_Name ==
    IF node.callee.property.name \in {"true", "truthy"} THEN "regex" ELSE "notRegex"

C1_BooleanRewrite ==
    (C1_Shape /\ classifies(C1_Pattern)) =>
        /\ visited =>
            /\ pc = "returned"
            /\ Len(reports) = 1
            /\ reports[1].node = node
            /\ reports[1].fix.assertion = C1_Name
        /\ Len(fixes) = 1 =>
            /\ Len(fixes[1]) = 2
            /\ fixes[1][1] = [range |-> propertyRange(node), text |-> C1_Name]
            /\ fixes[1][2].range = argumentRange(node, 1)
            /\ C1_Subject # undefined =>
                fixes[1][2].text = textOf(C1_Subject) \o ", " \o textOf(C1_Pattern)

\* t.falsy(s.match(p)) with p an alias of a regex literal was fixed to
\* t.notRegex(s, p).
C1_Witness ==
    /\ C1_Shape
    /\ node.callee.property.name = "falsy"
    /\ C1_Inner.callee.property.name = "match"
    /\ C1_Pattern = re
    /\ Len(fixes) = 1
    /\ fixes[1][1].text = "notRegex"
    /\ fixes[1][2].text = "s, " \o re.name

(***************************************************************************)
(* C2.  t.is or t.deepEqual of a call r.test(s), r classified as regex,    *)
(* and a boolean literal, in either order, is reported exactly once; the   *)
(* fix renames the assertion to regex (true) or notRegex (false) and       *)
(* writes the text of s into the first argument and the text of r into     *)
(* the second.                                                             *)
(***************************************************************************)
C2_IsTest(e) == IsMethodCall(e, {"test"}) /\ Len(e.arguments) >= 1
C2_IsBoolean(e) == typeOf(e) = "Literal" /\ e.raw \in {"true", "false"}
C2_Shape ==
    /\ IsAssertionOnT(equalityTests)
    /\ Len(node.arguments) = 2
    /\ \/ C2_IsTest(Arg(node, 1)) /\ C2_IsBoolean(Arg(node, 2))
       \/ C2_IsTest(Arg(node, 2)) /\ C2_IsBoolean(Arg(node, 1))
C2_Test == IF C2_IsTest(Arg(node, 1)) THEN Arg(node, 1) ELSE Arg(node, 2)
C2_Boolean == IF C2_IsTest(Arg(node, 1)) THEN Arg(node, 2) ELSE Arg(node, 1)
C2_Name == IF C2_Boolean.raw = "true" THEN "regex" ELSE "notRegex"

C2_EqualityRewrite ==
    (C2_Shape /\ classifies(C2_Test.callee.object)) =>
        /\ visited =>
            /\ pc = "returned"
            /\ Len(reports) = 1
            /\ reports[1].node = node
            /\ reports[1].fix.assertion = C2_Name
        /\ Len(fixes) = 1 =>
            fixes[1] =
                <<[range |-> propertyRange(node), text |-> C2_Name],
                  [range |-> argumentRange(node, 1),
                   text |-> textOf(Arg(C2_Test, 1))],
                  [range |-> argumentRange(node, 2),
                   text |-> textOf(C2_Test.callee.object)]>>

\* t.deepEqual(false, new RegExp('a').test(s)) was fixed to
\* t.notRegex(s, new RegExp('a')).
C2_Witness ==
    /\ C2_Shape
    /\ node.callee.property.name = "deepEqual"
    /\ C2_IsTest(Arg(node, 2))
    /\ Len(fixes) = 1
    /\ fixes[1][1].text = "notRegex"
    /\ fixes[1][2].text = "s"
    /\ fixes[1][3].text = "new RegExp('a')"

(***************************************************************************)
(* C3.  An equality assertion whose two arguments both classify as regex,  *)
(* or both do not, is never reported, whatever values isRegExp returned    *)
(* for the two sides (true, or the regex object of a literal).             *)
(***************************************************************************)
C3_BothOrNeither ==
    \/ classifies(Arg(node, 1)) /\ classifies(Arg(node, 2))
    \/ declines(Arg(node, 1)) /\ declines(Arg(node, 2))

C3_BothOrNeitherUnreported ==
    (IsAssertionOnT(equalityTests) /\ C3_BothOrNeither /\ visited) =>
        pc = "returned" /\ reports = <<>>

\* Both sides classify as regex through different values of isRegExp, the
\* first being a regex literal, and the visitor returned without a report.
C3_Witness ==
    /\ IsAssertionOnT(equalityTests)
    /\ classifies(Arg(node, 1)) /\ classifies(Arg(node, 2))
    /\ isRegExp(Arg(node, 1)) # isRegExp(Arg(node, 2))
    /\ typeOf(Arg(node, 1)) = "Literal"
    /\ pc = "returned"
    /\ reports = <<>>

(***************************************************************************)
(* C4.  An identifier whose initializers lead, through any number of       *)
(* identifier hops, to a regex literal or to a construction or call of the *)
(* global RegExp classifies as regex, and t.true(p.test(s)) is reported.   *)
(***************************************************************************)
C4_IsRegExpConstruction(e) ==
    /\ typeOf(e) \in {"NewExpression", "CallExpression"}
    /\ e.callee = Identifier("RegExp")
    /\ InitOf("RegExp") = null

RECURSIVE C4_LeadsToRegex(_, _)
\* Following initializers from nm ends at a regex within hops identifier hops.
C4_LeadsToRegex(nm, hops) ==
    LET e == InitOf(nm)
    IN  /\ hops >= 1
        /\ e # null
        /\ \/ Has(e, "regex")
           \/ C4_IsRegExpConstruction(e)
           \/ typeOf(e) = "Identifier" /\ C4_LeadsToRegex(e.name, hops - 1)

C4_ReTest ==
    Assertion(Identifier("t"), "true",
              <<CallExpression(MemberExpression(re, "test"), <<subject>>)>>)

C5_ExactlyOne ==
    \/ classifies(Arg(node, 1)) /\ declines(Arg(node, 2))
    \/ declines(Arg(node, 1)) /\ classifies(Arg(node, 2))
C5_Matchee == IF declines(Arg(node, 1)) THEN Arg(node, 1) ELSE Arg(node, 2)

C5_OnlyBooleanMatchee ==
    (IsAssertionOnT(equalityTests) /\ C5_ExactlyOne /\ visited) =>
        /\ pc = "returned"
        /\ reports # <<>> =>
            /\ typeOf(C5_Matchee) = "Literal"
            /\ C5_Matchee.raw \in {"true", "false"}

\* Exactly one side is regex, the other is the literal 1: returned, no report.
C5_Witness ==
    /\ IsAssertionOnT(equalityTests)
    /\ C5_ExactlyOne
    /\ C5_Matchee = Literal("1")
    /\ pc = "returned"
    /\ reports = <<>>

(***************************************************************************)
(* C6.  The equality matcher reports only when the argument classified as  *)
(* regex is a call with a member-access callee and at least one argument.  *)
(***************************************************************************)
C6_RegexSide == IF classifies(Arg(node, 2)) THEN Arg(node, 2) ELSE Arg(node, 1)

C6_ReportsOnlyTestShapedCall ==
    (IsAssertionOnT(equalityTests) /\ visited /\ reports # <<>>) =>
        /\ IsMethodCall(C6_RegexSide, Methods)
        /\ Len(C6_RegexSide.arguments) >= 1

(***************************************************************************)
(* C7.  findRootReference terminates under every scope, cyclic             *)
(* initializers included, so the visitor always returns.                   *)
(***************************************************************************)
C7_VisitorAlwaysReturns == visited => pc = "returned"

(***************************************************************************)
(* C8.  When an expected child node is absent (no argument, an equality    *)
(* assertion with one argument, an inner callee without property, an       *)
(* inner test, match or search call without argument), nothing is          *)
(* reported.                                                               *)
(***************************************************************************)
C8_ChildAbsent ==
    \/ Len(node.arguments) = 0
    \/ IsAssertionOnT(equalityTests) /\ Len(node.arguments) = 1
    \/ /\ typeOf(Arg(node, 1)) = "CallExpression"
       /\ ~Has(Arg(node, 1).callee, "property")
    \/ /\ IsMethodCall(Arg(node, 1), {"test", "match", "search"})
       /\ Len(Arg(node, 1).arguments) = 0

C8_AbsentChildUnreported ==
    (IsAssertionOnT(booleanTests \cup equalityTests) /\ C8_ChildAbsent /\ visited) =>
        pc = "returned" /\ reports = <<>>

(***************************************************************************)
(* C9.  Original: every expression whose callee/object chain ends at an    *)
(* identifier named RegExp classifies as regex, however RegExp is bound.   *)
(***************************************************************************)
RECURSIVE C9_SyntacticRoot(_)
C9_SyntacticRoot(e) ==
    IF typeOf(e) \in {"CallExpression", "NewExpression"} THEN C9_SyntacticRoot(e.callee)
    ELSE IF typeOf(e) = "MemberExpression" THEN C9_SyntacticRoot(e.object)
    ELSE e

\* The expressions of the visited call: its arguments and, for an argument
\* that is a method call, the object and the first argument of that call.
C9_Expressions ==
    LET args == {Arg(node, i) : i \in 1..Len(node.arguments)}
    IN  args
        \cup {a.callee.object : a \in {x \in args : IsMethodCall(x, Methods)}}
        \cup {Arg(a, 1) : a \in {x \in args : IsMethodCall(x, Methods)}}

C9_EndsAtRegExp(e) == C9_SyntacticRoot(e) = Identifier("RegExp")

C9_AnyBindingOfRegExp ==
    \A e \in C9_Expressions : C9_EndsAtRegExp(e) => classifies(e)

(***************************************************************************)
(* C9, amended.  Such an expression classifies as regex when the scope     *)
(* gives the name RegExp no definition with an initializer; when RegExp    *)
(* is declared with an initializer, the classification is that of the      *)
(* initializer (const RegExp = 5: not regex).                              *)
(***************************************************************************)
C9_RegExpWithoutInitializer ==
    \A e \in C9_Expressions :
        C9_EndsAtRegExp(e) =>
            /\ InitOf("RegExp") = null => classifies(e)
            /\ InitOf("RegExp") = Literal("5") => declines(e)

\* RegExp is bound as a parameter, and t.true(new RegExp('a').test(s)) was
\* reported.
C9_Witness ==
    /\ scope.references[Len(scope.references)] = RegExpReference("param")
    /\ IsAssertionOnT({"true"})
    /\ IsMethodCall(Arg(node, 1), {"test"})
    /\ Arg(node, 1).callee.object = NewRegExp
    /\ Len(reports) = 1

(***************************************************************************)
(* C10.  At most one finding is reported per visited call, each carries a  *)
(* fix, and the edits of a fix address pairwise disjoint ranges, each the  *)
(* range of the property name or of an argument of the visited call.       *)
(***************************************************************************)
C10_NodeRanges ==
    {propertyRange(node)} \cup {argumentRange(node, i) : i \in 1..Len(node.arguments)}

C10_EditsDisjoint ==
    /\ Len(reports) <= 1
    /\ \A i \in 1..Len(reports) : Has(reports[i], "fix")
    /\ \A i \in 1..Len(fixes) :
        fixes[i] # TypeError =>
            /\ \A j \in 1..Len(fixes[i]) : fixes[i][j].range \in C10_NodeRanges
            /\ \A j, k \in 1..Len(fixes[i]) :
                j # k => Disjoint(fixes[i][j].range, fixes[i][k].range)

\* The fix of an equality assertion yielded its three edits.
C10_Witness ==
    /\ IsAssertionOnT(equalityTests)
    /\ Len(fixes) = 1
    /\ fixes[1] # TypeError
    /\ Len(fixes[1]) = 3

====
